---- MODULE Spec2Model ----
(***************************************************************************)
(* Real-estate listing application: the image upload / retrieval pipeline  *)
(* over GridFS (src/app/api/upload, src/app/api/image/[id]) and the        *)
(* property repository (src/app/api/properties, src/models/Property.ts,    *)
(* src/utils/db.ts), and the creation workflow of the page component       *)
(* (handleSubmit and uploadToMongo), its map selection (handleMapClick)    *)
(* and concurrent dbConnect() calls on the cached connection.              *)
(*                                                                         *)
(* Representation choices                                                  *)
(*  - A MIME type is the tuple of its parts around the first "/":          *)
(*    "image/png" is <<"image","png">>, the empty type is <<>>.            *)
(*  - A byte buffer is a run: `len` copies of the byte `fill`, tagged with *)
(*    its encoding ("raw" or "gzip").  Thresholds are in real bytes.       *)
(*  - An ObjectId is a positive integer; a path segment of the image route *)
(*    is a record [kind, n] with kind "none" (no segment), "malformed"     *)
(*    (not 24 hex digits) or "hex24".                                      *)
(*  - An image identifier of a listing is <<"oid", n>> for the string of   *)
(*    ObjectId n and <<"placeholder", k>> for the token "placeholderk".    *)
(*  - A numeric form field is <<>> when empty ("") and <<n>> when it holds *)
(*    n; coordinates are in hundredths of a degree.                        *)
(***************************************************************************)
EXTENDS Integers, Sequences, FiniteSets, TLC

VARIABLES
    MONGODB_URI,   \* process.env.MONGODB_URI: "set" or "unset"
    fsFiles,       \* GridFS bucket: ObjectId -> stored file document
    nextOid,       \* next ObjectId the driver generates for an upload stream
    uploadStream,  \* the GridFS write of the upload request in progress
    uploaded,      \* history: ObjectId of a stored file -> the File sent, and
                   \* whether the id was returned to the client
    properties,    \* Property collection, in insertion order
    cached,        \* (global as any).mongoose = { conn, promise }
    response,      \* the last HTTP response any handler produced
    \* React state of the page component
    form, selectedLocation, locationName, showModal, submitting,
    uploadProgress,
    propertiesState,  \* the state `properties`: the listings displayed
    alerted,          \* the message of the last alert(), "" when none
    \* handleSubmit in progress
    pc,               \* the await handleSubmit is suspended at
    closure,          \* form, selectedLocation, locationName it captured
    uploadPromises,   \* the promises of uploadToMongo, in slot order
    serving,          \* index of the promise whose request the upload
                      \* handler is serving, 0 when none
    imageIds, coords, propertyData, propertyResult,
    requests,         \* history: requests this submission has issued, and
                      \* how they ended
    progressLog,      \* history: arguments of setUploadProgress, in order
    submissions,      \* history: submissions started
    \* dbConnect() calls in progress
    callers,          \* each call: where it stands and what it returned
    connects,         \* history: mongoose.connect() calls made
    storeUp,          \* whether the store is reachable now
    \* reverse geocoding of selected points
    clicks            \* the points selected, in order, and what became of
                      \* the reverse geocoding request of each

serverVars == <<MONGODB_URI, fsFiles, nextOid, uploadStream, uploaded,
                properties, cached, response>>

stateVars == <<form, selectedLocation, locationName, showModal, submitting,
               uploadProgress, propertiesState, alerted>>

submitVars == <<pc, closure, uploadPromises, serving, imageIds, coords,
                propertyData, propertyResult, requests, progressLog, submissions>>

clientVars == <<stateVars, submitVars>>

connectVars == <<callers, connects, storeUp>>

lookupVars == <<clicks>>

vars == <<serverVars, clientVars, connectVars, lookupVars>>

imageVars == <<fsFiles, nextOid, uploadStream, uploaded>>
propertyVars == <<properties, cached>>

(***************************************************************************)
(* Bounds of the model                                                     *)
(***************************************************************************)
MaxCallers == 2    \* dbConnect() calls one behaviour follows
MaxClicks == 2     \* map points the user selects
MaxObjects == 1    \* ObjectIds the bucket hands out
MaxListings == 3   \* documents the Property collection holds
MaxTime == 2       \* Date.now() ranges over 1..MaxTime
MaxFiles == 2      \* file slots of the form

(***************************************************************************)
(* Files and buffers                                                       *)
(***************************************************************************)
OneMiB == 1024 * 1024

maxSize == 5 * 1024 * 1024

imagePng == <<"image", "png">>
imageJpeg == <<"image", "jpeg">>
applicationGzip == <<"application", "gzip">>

MimeTypes == {imagePng, imageJpeg, <<"text", "plain">>, <<>>}

FileSizes == {OneMiB, OneMiB + 1, maxSize, maxSize + 1}

Files == [name : {"a.img"}, type : MimeTypes, size : FileSizes, fill : {0, 255}]

\* The multipart body: the entries of field "file" (none or one).
FormDatas == {<<>>} \cup {<<f>> : f \in Files}

\* A type check that lets every type through
startsWithImage_any(type) == Len(type) >= 0

\* file.type.startsWith('image/')
startsWithImage(type) == Len(type) >= 2 /\ type[1] = "image"

\* Buffer.from(await file.arrayBuffer())
arrayBuffer(file) == [enc |-> "raw", fill |-> file.fill, len |-> file.size]

\* stream.pipe(createGzip()): the deflated form of the run
createGzip(buffer) == [enc |-> "gzip", fill |-> buffer.fill, len |-> buffer.len]

\* A gunzip that passes the stored payload through
createGunzip_passThrough(payload) == [ok |-> TRUE, bytes |-> payload]

\* downloadStream.pipe(createGunzip()): inflates a gzip stream, and emits an
\* error on data that is not one
createGunzip(payload) ==
    IF payload.enc = "gzip"
    THEN [ok |-> TRUE, bytes |-> [enc |-> "raw", fill |-> payload.fill, len |-> payload.len]]
    ELSE [ok |-> FALSE, bytes |-> payload]

\* The threshold taken as inclusive
shouldCompress_inclusive(buffer) == buffer.len >= 1024 * 1024

\* const shouldCompress = buffer.length > 1024 * 1024
shouldCompress(buffer) == buffer.len > 1024 * 1024

\* bucket.openUploadStream(file.name, {contentType, metadata}) piped from
\* finalStream: the document the stream writes when it finishes
uploadDocument(file) ==
    LET buffer == arrayBuffer(file)
        compress == shouldCompress(buffer)
    IN  [contentType |-> IF compress THEN applicationGzip ELSE file.type,
         metadata |-> [originalName |-> file.name,
                       size |-> file.size,
                       compressed |-> compress],
         payload |-> IF compress THEN createGzip(buffer) ELSE buffer]

(***************************************************************************)
(* POST /api/upload                                                        *)
(***************************************************************************)
\* NextResponse.json(...) of the upload handler, with the request it answers:
\* parsed = FALSE when req.formData() threw, formData the parsed entries.
uploadJson(status, fileId, parsed, formData) ==
    [handler |-> "upload.POST", status |-> status, fileId |-> fileId,
     parsed |-> parsed, formData |-> formData]

\* The handler up to the await of the upload race.  bodyOk = FALSE is a
\* request whose multipart body req.formData() cannot parse.
upload_POST(bodyOk, formData) ==
    /\ uploadStream.state = "none"
    /\ IF ~bodyOk
       THEN /\ response' = uploadJson(500, 0, FALSE, <<>>)
            /\ UNCHANGED imageVars
       ELSE IF formData = <<>>
       THEN /\ response' = uploadJson(400, 0, TRUE, formData)
            /\ UNCHANGED imageVars
       ELSE LET file == formData[1] IN
            IF file.size > maxSize \/ ~startsWithImage(file.type)
            THEN /\ response' = uploadJson(400, 0, TRUE, formData)
                 /\ UNCHANGED imageVars
            ELSE IF MONGODB_URI = "unset"
            THEN \* new MongoClient(undefined) throws
                 /\ response' = uploadJson(500, 0, TRUE, formData)
                 /\ UNCHANGED imageVars
            ELSE /\ uploadStream' = [state |-> "piping", id |-> nextOid, file |-> file]
                 /\ nextOid' = nextOid + 1
                 /\ UNCHANGED <<fsFiles, uploaded, response>>
    /\ UNCHANGED <<MONGODB_URI, propertyVars>>

\* uploadStream emits "finish": the file document is written, the race is
\* won by uploadPromise and the handler answers { fileId }.
upload_finish ==
    /\ uploadStream.state = "piping"
    /\ fsFiles' = (uploadStream.id :> uploadDocument(uploadStream.file)) @@ fsFiles
    /\ uploaded' = (uploadStream.id :> [file |-> uploadStream.file, returned |-> TRUE]) @@ uploaded
    /\ response' = uploadJson(200, uploadStream.id, TRUE, <<uploadStream.file>>)
    /\ uploadStream' = [state |-> "none"]
    /\ UNCHANGED <<MONGODB_URI, nextOid, propertyVars>>

\* uploadStream emits "error" (store unreachable): catch -> 500.
upload_error ==
    /\ uploadStream.state = "piping"
    /\ response' = uploadJson(500, 0, TRUE, <<uploadStream.file>>)
    /\ uploadStream' = [state |-> "none"]
    /\ UNCHANGED <<MONGODB_URI, fsFiles, nextOid, uploaded, propertyVars>>

\* The 30 s timer rejects first: catch -> 500.  Nothing ends the stream,
\* which keeps writing after the response.
upload_timeout ==
    /\ uploadStream.state = "piping"
    /\ response' = uploadJson(500, 0, TRUE, <<uploadStream.file>>)
    /\ uploadStream' = [uploadStream EXCEPT !.state = "abandoned"]
    /\ UNCHANGED <<MONGODB_URI, fsFiles, nextOid, uploaded, propertyVars>>

\* The stream of a timed-out request finishes after all.
abandoned_finish ==
    /\ uploadStream.state = "abandoned"
    /\ fsFiles' = (uploadStream.id :> uploadDocument(uploadStream.file)) @@ fsFiles
    /\ uploaded' = (uploadStream.id :> [file |-> uploadStream.file, returned |-> FALSE]) @@ uploaded
    /\ uploadStream' = [state |-> "none"]
    /\ UNCHANGED <<MONGODB_URI, nextOid, response, propertyVars>>

\* The stream of a timed-out request fails.
abandoned_error ==
    /\ uploadStream.state = "abandoned"
    /\ uploadStream' = [state |-> "none"]
    /\ UNCHANGED <<MONGODB_URI, fsFiles, nextOid, uploaded, response, propertyVars>>

(***************************************************************************)
(* GET /api/image/[id]                                                     *)
(***************************************************************************)
NoSegment == [kind |-> "none", n |-> 0]
Malformed == [kind |-> "malformed", n |-> 0]
Hex24(n) == [kind |-> "hex24", n |-> n]

ImageIds == {NoSegment, Malformed} \cup {Hex24(n) : n \in 1..(MaxObjects + 1)}

\* new ObjectId(id) throws unless id is a valid identifier
ObjectIdValid(id) == id.kind = "hex24"

FileNotFound == [ok |-> FALSE, bytes |-> [enc |-> "raw", fill |-> 0, len |-> 0]]

imageResponse(id, status, contentType, body) ==
    [handler |-> "image.GET", id |-> id, status |-> status,
     contentType |-> contentType, body |-> body]

textResponse(id, status, text) ==
    imageResponse(id, status, <<"text", "plain">>,
                  [ok |-> TRUE, text |-> text])

\* lines 42-62: the response built from the metadata document and the stream
serveImage(id) ==
    IF id.n \notin DOMAIN fsFiles
    THEN \* fileDoc is null: the download stream is served as it is, with the
         \* default type; it fails with FileNotFound once it is read
         imageResponse(id, 200, imageJpeg, FileNotFound)
    ELSE LET fileDoc == fsFiles[id.n] IN
         IF fileDoc.metadata.compressed
         THEN \* metadata.originalContentType is never written by the upload
              imageResponse(id, 200, imageJpeg, createGunzip(fileDoc.payload))
         ELSE imageResponse(id, 200,
                            IF fileDoc.contentType # <<>> THEN fileDoc.contentType
                                                          ELSE imageJpeg,
                            [ok |-> TRUE, bytes |-> fileDoc.payload])

\* storeOk = FALSE: files.findOne rejects (store unreachable)
image_GET(id, storeOk) ==
    /\ response' =
         IF id.kind = "none" THEN textResponse(id, 400, "Invalid image ID")
         ELSE IF MONGODB_URI = "unset" \/ ~ObjectIdValid(id) \/ ~storeOk
         THEN textResponse(id, 404, "Image not found")
         ELSE serveImage(id)
    /\ UNCHANGED <<MONGODB_URI, imageVars, propertyVars>>

(***************************************************************************)
(* src/utils/db.ts and src/models/Property.ts                              *)
(***************************************************************************)
\* A dbConnect() that forgets a rejected promise and connects again
dbConnect_retry(c, connectOk) ==
    IF MONGODB_URI = "unset" THEN [cached |-> c, ok |-> FALSE]
    ELSE IF c.conn # "null" THEN [cached |-> c, ok |-> TRUE]
    ELSE IF c.promise = "fulfilled" \/ connectOk
         THEN [cached |-> [conn |-> "mongoose", promise |-> "fulfilled"], ok |-> TRUE]
         ELSE [cached |-> [conn |-> c.conn, promise |-> "rejected"], ok |-> FALSE]

\* dbConnect() against the cache: connectOk is whether mongoose.connect
\* resolves, should this call be the one that starts it.  The result is the
\* cache after the call and whether the call returned (ok) or threw.
dbConnect(c, connectOk) ==
    IF MONGODB_URI = "unset" THEN [cached |-> c, ok |-> FALSE]
    ELSE IF c.conn # "null" THEN [cached |-> c, ok |-> TRUE]
    ELSE LET promise == IF c.promise = "null"
                        THEN (IF connectOk THEN "fulfilled" ELSE "rejected")
                        ELSE c.promise
         IN  IF promise = "fulfilled"
             THEN [cached |-> [conn |-> "mongoose", promise |-> promise], ok |-> TRUE]
             ELSE [cached |-> [conn |-> c.conn, promise |-> promise], ok |-> FALSE]

Callers == 1..MaxCallers

InitConnect ==
    /\ callers = [p \in Callers |-> [pc |-> "idle", result |-> "none", storeUp |-> FALSE]]
    /\ connects = 0
    /\ storeUp = TRUE

\* A call that looks at cached.conn only
dbConnect_call_connOnly(p) ==
    /\ callers[p].pc = "idle"
    /\ IF MONGODB_URI = "unset"
       THEN /\ callers' = [callers EXCEPT ![p] = [pc |-> "threw", result |-> "error",
                                                  storeUp |-> storeUp]]
            /\ UNCHANGED <<cached, connects>>
       ELSE IF cached.conn # "null"
       THEN /\ callers' = [callers EXCEPT ![p] = [pc |-> "returned", result |-> cached.conn,
                                                  storeUp |-> storeUp]]
            /\ UNCHANGED <<cached, connects>>
       ELSE /\ cached' = [cached EXCEPT !.promise = "pending"]
            /\ connects' = connects + 1
            /\ callers' = [callers EXCEPT ![p] = [pc |-> "awaiting", result |-> "none",
                                                  storeUp |-> storeUp]]
    /\ UNCHANGED <<MONGODB_URI, imageVars, properties, response, storeUp>>

\* dbConnect() up to its await (lines 19-47): the call throws without a
\* URI, returns the cached connection, or waits for cached.promise, which
\* it creates with mongoose.connect() when there is none.
dbConnect_call(p) ==
    /\ callers[p].pc = "idle"
    /\ IF MONGODB_URI = "unset"
       THEN /\ callers' = [callers EXCEPT ![p] = [pc |-> "threw", result |-> "error",
                                                  storeUp |-> storeUp]]
            /\ UNCHANGED <<cached, connects>>
       ELSE IF cached.conn # "null"
       THEN /\ callers' = [callers EXCEPT ![p] = [pc |-> "returned", result |-> cached.conn,
                                                  storeUp |-> storeUp]]
            /\ UNCHANGED <<cached, connects>>
       ELSE /\ IF cached.promise = "null"
               THEN /\ cached' = [cached EXCEPT !.promise = "pending"]
                    /\ connects' = connects + 1
               ELSE UNCHANGED <<cached, connects>>
            /\ callers' = [callers EXCEPT ![p] = [pc |-> "awaiting", result |-> "none",
                                                  storeUp |-> storeUp]]
    /\ UNCHANGED <<MONGODB_URI, imageVars, properties, response, storeUp>>

\* mongoose.connect() settles (lines 31-43): it resolves when the store is
\* reachable and rejects when it is not.
connect_settle ==
    /\ cached.promise = "pending"
    /\ cached' = [cached EXCEPT !.promise = IF storeUp THEN "fulfilled" ELSE "rejected"]
    /\ UNCHANGED <<MONGODB_URI, imageVars, properties, response, connectVars>>

\* The await of a waiting call ends (lines 46-52).
dbConnect_resume(p) ==
    /\ callers[p].pc = "awaiting"
    /\ cached.promise \in {"fulfilled", "rejected"}
    /\ IF cached.promise = "fulfilled"
       THEN /\ cached' = [cached EXCEPT !.conn = "mongoose"]
            /\ callers' = [callers EXCEPT ![p].pc = "returned", ![p].result = "mongoose"]
       ELSE /\ callers' = [callers EXCEPT ![p].pc = "threw", ![p].result = "error"]
            /\ UNCHANGED cached
    /\ UNCHANGED <<MONGODB_URI, imageVars, properties, response, connects, storeUp>>

\* The store goes down or comes back.
storeChanges ==
    /\ storeUp' = ~storeUp
    /\ UNCHANGED <<serverVars, callers, connects>>

Times == 1..MaxTime

\* Paths of PropertySchema declared { required: true }
requiredPaths == {"name", "location", "description", "lat", "lng", "price"}

\* Paths of PropertySchema with a default, and the default (now = Date.now())
schemaDefault(path, now) ==
    CASE path = "images" -> <<>>
      [] path = "createdAt" -> now
      [] OTHER -> 0

schemaPaths == requiredPaths \cup {"images", "createdAt", "beds", "baths", "area"}

\* Paths of PropertySchema of type String
stringPaths == {"name", "location", "description"}

\* A validator that checks only the paths the payload holds
checkRequired_presentOnly(data) ==
    \A path \in requiredPaths \cap DOMAIN data :
        path \in stringPaths => data[path] # ""

\* The required validator: the path is present, and a string is not empty
checkRequired(data) ==
    \A path \in requiredPaths :
        /\ path \in DOMAIN data
        /\ path \in stringPaths => data[path] # ""

\* A schema whose images path takes its default
PropertySchema_imagesDefault(data, oid, now) ==
    [path \in schemaPaths \cup {"_id"} |->
        IF path = "_id" THEN <<"oid", oid>>
        ELSE IF path \in DOMAIN data \ {"images"} THEN data[path]
        ELSE schemaDefault(path, now)]

\* new Property(data): schema paths only, defaults applied, _id generated
PropertySchema(data, oid, now) ==
    [path \in schemaPaths \cup {"_id"} |->
        IF path = "_id" THEN <<"oid", oid>>
        ELSE IF path \in DOMAIN data THEN data[path]
        ELSE schemaDefault(path, now)]

\* Insertion that keeps the sequence ascending
RECURSIVE insertAscending(_, _)
insertAscending(sorted, doc) ==
    IF sorted = <<>> THEN <<doc>>
    ELSE IF Head(sorted).createdAt <= doc.createdAt
         THEN <<Head(sorted)>> \o insertAscending(Tail(sorted), doc)
         ELSE <<doc>> \o sorted

\* Insertion of doc into a sequence sorted by createdAt descending, behind
\* the documents of equal createdAt
RECURSIVE insertDescending(_, _)
insertDescending(sorted, doc) ==
    IF sorted = <<>> THEN <<doc>>
    ELSE IF Head(sorted).createdAt >= doc.createdAt
         THEN <<Head(sorted)>> \o insertDescending(Tail(sorted), doc)
         ELSE <<doc>> \o sorted

\* Property.find().sort({ createdAt: -1 })
RECURSIVE findSorted(_)
findSorted(docs) ==
    IF docs = <<>> THEN <<>>
    ELSE insertDescending(findSorted(SubSeq(docs, 1, Len(docs) - 1)), docs[Len(docs)])

(***************************************************************************)
(* GET and POST /api/properties                                            *)
(***************************************************************************)
\* The listing payloads a client may post: the full payload of the form,
\* with one path left out, the name left empty, or an image identifier of
\* the client's choosing.
fullPayload(createdAt) ==
    [images |-> << <<"placeholder", 1>> >>, name |-> "Villa", location |-> "Accra",
     description |-> "Sea view", lat |-> 5, lng |-> 1, createdAt |-> createdAt,
     price |-> 100, beds |-> 2, baths |-> 1, area |-> 80]

without(data, path) == [k \in DOMAIN data \ {path} |-> data[k]]

Payloads ==
    {fullPayload(t) : t \in Times}
    \cup {without(fullPayload(1), path) :
            path \in {"name", "location", "description", "lat", "lng", "price", "createdAt"}}
    \cup {[fullPayload(1) EXCEPT !.name = ""]}
    \cup {[fullPayload(1) EXCEPT !.images = << <<"oid", 1>> >>]}

propertiesJson(method, status, uncaught, error, data, body) ==
    [handler |-> method, status |-> status, uncaught |-> uncaught,
     error |-> error, data |-> data, body |-> body]

\* A catch block that lets the error leave the handler
catchGET_rethrow(error) ==
    propertiesJson("properties.GET", 500, TRUE, error, <<>>, <<>>)

\* The catch block of GET: NextResponse.json([])
catchGET(error) ==
    propertiesJson("properties.GET", 200, FALSE, error, <<>>, <<>>)

\* GET: queryOk = FALSE is a find() that rejects
properties_GET(connectOk, queryOk) ==
    LET conn == dbConnect(cached, connectOk) IN
    /\ cached' = conn.cached
    /\ response' =
         IF ~conn.ok THEN catchGET("connect")
         ELSE IF ~queryOk THEN catchGET("query")
         ELSE propertiesJson("properties.GET", 200, FALSE, "none", <<>>, findSorted(properties))
    /\ UNCHANGED <<MONGODB_URI, imageVars, properties>>

\* The catch block of POST: it reads the request body again.  bodyUsed is
\* whether the try block had already consumed it; an exception thrown here
\* leaves the handler (the framework answers 500).
mockResponse(error, bodyUsed, bodyOk, data, now) ==
    IF ~bodyOk
    THEN propertiesJson("properties.POST", 500, TRUE, error, <<>>, <<>>)
    ELSE IF bodyUsed
    THEN propertiesJson("properties.POST", 500, TRUE, error, <<data>>, <<>>)
    ELSE propertiesJson("properties.POST", 200, FALSE, error, <<data>>,
            <<("createdAt" :> now) @@ data @@ ("_id" :> <<"mock_", now>>)>>)

\* POST: bodyOk = FALSE is a body that is not JSON, writeOk = FALSE a store
\* that rejects the insert, now the value of Date.now()
properties_POST(connectOk, bodyOk, data, writeOk, now) ==
    LET conn == dbConnect(cached, connectOk) IN
    /\ cached' = conn.cached
    /\ IF ~conn.ok
       THEN /\ response' = mockResponse("connect", FALSE, bodyOk, data, now)
            /\ UNCHANGED properties
       ELSE IF ~bodyOk
       THEN /\ response' = mockResponse("json", TRUE, bodyOk, data, now)
            /\ UNCHANGED properties
       ELSE IF ~checkRequired(data)
       THEN /\ response' = mockResponse("validation", TRUE, bodyOk, data, now)
            /\ UNCHANGED properties
       ELSE IF ~writeOk
       THEN /\ response' = mockResponse("write", TRUE, bodyOk, data, now)
            /\ UNCHANGED properties
       ELSE /\ Len(properties) < MaxListings
            /\ LET property == PropertySchema(data, Len(properties) + 1, now) IN
               /\ properties' = Append(properties, property)
               /\ response' = propertiesJson("properties.POST", 200, FALSE, "none",
                                             <<data>>, <<property>>)
    /\ UNCHANGED <<MONGODB_URI, imageVars>>

(***************************************************************************)
(* The page component: state and creation workflow                         *)
(***************************************************************************)
emptyForm ==
    [images |-> <<>>, name |-> "", location |-> "", description |-> "",
     files |-> <<>>, price |-> <<>>, beds |-> <<>>, baths |-> <<>>, area |-> <<>>]

noCoords == [lat |-> 0, lng |-> 0]

\* Requests issued, and how the geocoding and the create request ended:
\* geocoded is "none", "found", "empty" or "error"; created is "none",
\* "created", "network" (the fetch rejected) or the error the POST handler
\* caught ("connect", "validation", "write").
noRequests ==
    [upload |-> 0, geocode |-> 0, create |-> 0, list |-> 0,
     geocoded |-> "none", created |-> "none"]

InitClient ==
    /\ form = emptyForm
    /\ selectedLocation = noCoords
    /\ locationName = ""
    /\ showModal = FALSE
    /\ submitting = FALSE
    /\ uploadProgress = 0
    /\ propertiesState = <<>>
    /\ alerted = ""
    /\ pc = "idle"
    /\ closure = [form |-> emptyForm, selectedLocation |-> noCoords, locationName |-> ""]
    /\ uploadPromises = <<>>
    /\ serving = 0
    /\ imageIds = <<>>
    /\ coords = noCoords
    /\ propertyData = <<>>
    /\ propertyResult = <<>>
    /\ requests = noRequests
    /\ progressLog = <<>>
    /\ submissions = 0

(***************************************************************************)
(* What the user may enter                                                 *)
(***************************************************************************)
pngLarge == [name |-> "a.img", type |-> imagePng, size |-> OneMiB + 1, fill |-> 255]
jpegSmall == [name |-> "a.img", type |-> imageJpeg, size |-> OneMiB, fill |-> 0]

\* A slot of form.files: a File, or <<>> for a slot that was cleared
FileSlots == {<<>>, <<pngLarge>>, <<jpegSmall>>}

FileLists == UNION {[1..n -> FileSlots] : n \in 0..MaxFiles}

FormTexts ==
    {[name |-> "Villa", location |-> "Accra", price |-> <<100>>, beds |-> <<2>>],
     [name |-> "Villa", location |-> " ", price |-> <<>>, beds |-> <<>>],
     [name |-> "", location |-> "", price |-> <<100>>, beds |-> <<2>>]}

Forms ==
    {[emptyForm EXCEPT !.files = files, !.name = t.name, !.location = t.location,
                       !.description = "Sea view", !.price = t.price,
                       !.beds = t.beds, !.baths = <<1>>, !.area = <<80>>] :
        files \in FileLists, t \in FormTexts}

mapPoint == [lat |-> 555, lng |-> -20]

\* What the geocoding service answers: a first result, no result, or a
\* failure (network error, timeout, a body that is not JSON)
GeoOutcomes == {"found", "empty", "error"}

geoResult == [lat |-> 560, lng |-> -18]

\* The user opens the modal and fills the form in; a map click selects a
\* point and its reverse geocoding names it.  A behaviour follows one
\* submission of one form from the first click on.
userFills(f, point, name) ==
    /\ pc = "idle"
    /\ form = emptyForm
    /\ ~showModal
    /\ submissions = 0
    /\ form' = f
    /\ selectedLocation' = point
    /\ locationName' = name
    /\ showModal' = TRUE
    /\ UNCHANGED <<serverVars, submitting, uploadProgress, propertiesState, alerted,
                   submitVars>>

(***************************************************************************)
(* handleMapClick and getCurrentLocation                                   *)
(***************************************************************************)
otherPoint == [lat |-> 561, lng |-> -19]

Points == {mapPoint, otherPoint}

\* display_name of the reverse geocoding of a point
displayName(point) == IF point = mapPoint THEN "Osu" ELSE "Labone"

\* The form the location is selected for: no files, a name and an address
locationForm ==
    [emptyForm EXCEPT !.name = "Villa", !.location = "Accra",
                      !.description = "Sea view", !.price = <<100>>,
                      !.beds = <<2>>, !.baths = <<1>>, !.area = <<80>>]

\* handleMapClick(lat, lng), and the success callback of getCurrentLocation:
\* the point is selected and its reverse geocoding requested (lines 132-139
\* and 157-160).  The map and the button are part of the open modal.
handleMapClick(point) ==
    /\ showModal
    /\ Len(clicks) < MaxClicks
    /\ selectedLocation' = point
    /\ clicks' = Append(clicks, [point |-> point, answer |-> "pending"])
    /\ UNCHANGED <<serverVars, connectVars, form, locationName, showModal, submitting,
                   uploadProgress, propertiesState, alerted, submitVars>>

\* The response of the request of click n arrives (lines 140-143 and
\* 161-164): setLocationName(data.display_name || "Selected Location").  A
\* request that fails has no handler and changes nothing.
reverseGeocoded(n, answer) ==
    /\ clicks[n].answer = "pending"
    /\ clicks' = [clicks EXCEPT ![n].answer = answer]
    /\ locationName' = CASE answer = "named" -> displayName(clicks[n].point)
                         [] answer = "unnamed" -> "Selected Location"
                         [] OTHER -> locationName
    /\ UNCHANGED <<serverVars, connectVars, form, selectedLocation, showModal, submitting,
                   uploadProgress, propertiesState, alerted, submitVars>>

(***************************************************************************)
(* handleSubmit and uploadToMongo                                          *)
(***************************************************************************)
placeholders == << <<"placeholder", 1>>, <<"placeholder", 2>>, <<"placeholder", 3>> >>

\* String.prototype.trim on the location texts of the model
trim(text) == IF text = " " THEN "" ELSE text

\* Number(field) of a numeric form field
Number(field) == IF field = <<>> THEN 0 ELSE field[1]

\* res.ok
ok(res) == res.status >= 200 /\ res.status <= 299

\* lines 281-293
composePropertyData(cl, ids, c, now) ==
    [images |-> ids,
     name |-> cl.form.name,
     location |-> IF cl.locationName # "" THEN cl.locationName ELSE cl.form.location,
     description |-> cl.form.description,
     lat |-> c.lat,
     lng |-> c.lng,
     createdAt |-> now,
     price |-> Number(cl.form.price),
     beds |-> Number(cl.form.beds),
     baths |-> Number(cl.form.baths),
     area |-> Number(cl.form.area)]

\* A create request issued without touching the progress
issueCreate_silent(cl, ids, c, log, req, now) ==
    /\ coords' = c
    /\ propertyData' = <<composePropertyData(cl, ids, c, now)>>
    /\ uploadProgress' = uploadProgress
    /\ progressLog' = log
    /\ requests' = [req EXCEPT !.create = @ + 1]
    /\ pc' = "creating"

\* lines 279-304: progress 80, the payload, and the create request issued
issueCreate(cl, ids, c, log, req, now) ==
    /\ coords' = c
    /\ propertyData' = <<composePropertyData(cl, ids, c, now)>>
    /\ uploadProgress' = 80
    /\ progressLog' = log \o <<80>>
    /\ requests' = [req EXCEPT !.create = @ + 1]
    /\ pc' = "creating"

\* No fallback: the identifiers as they are
withFallback_none(ids) == ids

\* lines 250-257: the placeholder fallback
withFallback(ids) == IF Len(ids) = 0 THEN placeholders ELSE ids

\* A test of the location text alone
needsGeocoding_textOnly(cl) == trim(cl.form.location) # ""

\* line 263: no point selected, and a location text entered
needsGeocoding(cl) ==
    /\ cl.selectedLocation.lat = 0
    /\ cl.selectedLocation.lng = 0
    /\ trim(cl.form.location) # ""

\* lines 250-277 up to the first await: the placeholder fallback, progress
\* 70, and either the geocoding request or the create request issued
afterUploads(cl, ids, log, req) ==
    LET final == withFallback(ids) IN
    /\ imageIds' = final
    /\ IF needsGeocoding(cl)
       THEN /\ coords' = cl.selectedLocation
            /\ uploadProgress' = 70
            /\ progressLog' = log \o <<70>>
            /\ requests' = [req EXCEPT !.geocode = @ + 1]
            /\ pc' = "geocoding"
            /\ UNCHANGED propertyData
       ELSE \E now \in Times :
                issueCreate(cl, final, cl.selectedLocation, log \o <<70>>, req, now)

\* form.files.map(file => file ? uploadToMongo(file) : null).filter(Boolean)
uploadPromisesOf(files) ==
    LET occupied == SelectSeq(files, LAMBDA slot : slot # <<>>) IN
    [k \in 1..Len(occupied) |->
        [file |-> occupied[k][1], state |-> "pending", fileId |-> <<"oid", 0>>]]

\* lines 218-248 up to the first await
handleSubmit ==
    /\ pc = "idle"
    /\ showModal
    /\ submissions = 0
    /\ \A k \in DOMAIN uploadPromises : uploadPromises[k].state \notin {"pending", "serving"}
    /\ LET cl == [form |-> form, selectedLocation |-> selectedLocation,
                  locationName |-> locationName]
       IN  /\ closure' = cl
           /\ uploadPromises' = uploadPromisesOf(form.files)
           /\ IF Len(form.files) > 0
              THEN /\ uploadProgress' = 10
                   /\ progressLog' = <<0, 10>>
                   /\ requests' = [noRequests EXCEPT !.upload = Len(uploadPromises')]
                   /\ pc' = "uploading"
                   /\ imageIds' = <<>>
                   /\ coords' = noCoords
                   /\ propertyData' = <<>>
              ELSE afterUploads(cl, <<>>, <<0>>, noRequests)
    /\ submitting' = TRUE
    /\ submissions' = submissions + 1
    /\ propertyResult' = <<>>
    /\ alerted' = ""
    /\ UNCHANGED <<serverVars, form, selectedLocation, locationName, showModal,
                   propertiesState, serving>>

\* A catch block without the finally block
catchFinally_noFinally(message) ==
    /\ alerted' = message
    /\ submitting' = submitting
    /\ uploadProgress' = uploadProgress
    /\ progressLog' = progressLog
    /\ pc' = "idle"

\* catch and finally of handleSubmit (lines 337-344)
catchFinally(message) ==
    /\ alerted' = message
    /\ submitting' = FALSE
    /\ uploadProgress' = 0
    /\ progressLog' = progressLog \o <<0>>
    /\ pc' = "idle"

settle(k, state, fileId) ==
    uploadPromises' = [uploadPromises EXCEPT ![k].state = state, ![k].fileId = fileId]

\* The upload handler takes up the request of promise k (uploadToMongo, lines
\* 202-209).  netOk = FALSE is a fetch that rejects.
uploadToMongo_serve(k, netOk) ==
    /\ uploadPromises[k].state = "pending"
    /\ serving = 0
    /\ IF ~netOk
       THEN /\ settle(k, "rejected", <<"oid", 0>>)
            /\ UNCHANGED <<serverVars, serving>>
       ELSE /\ upload_POST(TRUE, <<uploadPromises[k].file>>)
            /\ IF uploadStream'.state = "piping"
               THEN /\ settle(k, "serving", <<"oid", 0>>)
                    /\ serving' = k
               ELSE /\ settle(k, "rejected", <<"oid", 0>>)
                    /\ UNCHANGED serving
    /\ UNCHANGED <<stateVars, pc, closure, imageIds, coords, propertyData,
                   propertyResult, requests, progressLog, submissions>>

\* The response of the request being served arrives (lines 207-215): the
\* stream finished, failed, or the 30 s timer fired.
uploadToMongo_response(outcome) ==
    /\ serving # 0
    /\ CASE outcome = "finish" -> upload_finish
         [] outcome = "error" -> upload_error
         [] outcome = "timeout" -> upload_timeout
    /\ IF ok(response')
       THEN settle(serving, "fulfilled", <<"oid", response'.fileId>>)
       ELSE settle(serving, "rejected", <<"oid", 0>>)
    /\ serving' = 0
    /\ UNCHANGED <<stateVars, pc, closure, imageIds, coords, propertyData,
                   propertyResult, requests, progressLog, submissions>>

\* The stream of a timed-out request goes on after the response.
abandoned(finished) ==
    /\ IF finished THEN abandoned_finish ELSE abandoned_error
    /\ UNCHANGED clientVars

\* Values in promise order, put in ascending order of identifier
RECURSIVE promiseAll_byIdentifier(_)
promiseAll_byIdentifier(promises) ==
    IF promises = <<>> THEN <<>>
    ELSE LET least == CHOOSE k \in DOMAIN promises :
                        \A j \in DOMAIN promises :
                            promises[k].fileId[2] <= promises[j].fileId[2]
             rest == [j \in 1..(Len(promises) - 1) |->
                        IF j < least THEN promises[j] ELSE promises[j + 1]]
         IN  <<promises[least].fileId>> \o promiseAll_byIdentifier(rest)

\* The value of await Promise.all(uploadPromises) once all are fulfilled
promiseAll(promises) == [k \in DOMAIN promises |-> promises[k].fileId]

\* A batch that waits for every promise and goes on with the fulfilled ones
uploadsSettled_allSettled ==
    /\ pc = "uploading"
    /\ \A k \in DOMAIN uploadPromises : uploadPromises[k].state \in {"fulfilled", "rejected"}
    /\ afterUploads(closure,
                    promiseAll(SelectSeq(uploadPromises,
                                         LAMBDA promise : promise.state = "fulfilled")),
                    progressLog \o <<60>>, requests)
    /\ UNCHANGED <<alerted, submitting>>
    /\ UNCHANGED <<serverVars, form, selectedLocation, locationName, showModal,
                   propertiesState, closure, uploadPromises, serving,
                   propertyResult, submissions>>

\* imageIds = await Promise.all(uploadPromises) (lines 244-248), and the
\* code that follows it up to the next await
uploadsSettled ==
    /\ pc = "uploading"
    /\ IF \E k \in DOMAIN uploadPromises : uploadPromises[k].state = "rejected"
       THEN /\ catchFinally("Upload failed")
            /\ UNCHANGED <<imageIds, coords, propertyData, requests>>
       ELSE /\ \A k \in DOMAIN uploadPromises : uploadPromises[k].state = "fulfilled"
            /\ afterUploads(closure, promiseAll(uploadPromises),
                            progressLog \o <<60>>, requests)
            /\ UNCHANGED <<alerted, submitting>>
    /\ UNCHANGED <<serverVars, form, selectedLocation, locationName, showModal,
                   propertiesState, closure, uploadPromises, serving,
                   propertyResult, submissions>>

\* A lookup whose failure leaves the try block of handleSubmit
geocodeResponse_abort(outcome) ==
    /\ pc = "geocoding"
    /\ IF outcome = "error"
       THEN /\ catchFinally("Geocoding failed")
            /\ requests' = [requests EXCEPT !.geocoded = outcome]
            /\ UNCHANGED <<coords, propertyData>>
       ELSE /\ \E now \in Times :
                   issueCreate(closure, imageIds,
                               IF outcome = "found" THEN geoResult ELSE coords,
                               progressLog, [requests EXCEPT !.geocoded = outcome], now)
            /\ UNCHANGED <<alerted, submitting>>
    /\ UNCHANGED <<serverVars, form, selectedLocation, locationName, showModal,
                   propertiesState, closure, uploadPromises,
                   serving, imageIds, propertyResult, submissions>>

\* A lookup that is asked again when it fails
geocodeResponse_retry(outcome) ==
    /\ pc = "geocoding"
    /\ IF outcome = "error"
       THEN /\ requests' = [requests EXCEPT !.geocode = @ + 1, !.geocoded = outcome]
            /\ UNCHANGED <<coords, propertyData, uploadProgress, progressLog, pc>>
       ELSE \E now \in Times :
               issueCreate(closure, imageIds,
                           IF outcome = "found" THEN geoResult ELSE coords,
                           progressLog, [requests EXCEPT !.geocoded = outcome], now)
    /\ UNCHANGED <<serverVars, form, selectedLocation, locationName, showModal,
                   submitting, propertiesState, alerted, closure, uploadPromises,
                   serving, imageIds, propertyResult, submissions>>

\* The geocoding lookup returns (lines 264-277); a failure is caught.
geocodeResponse(outcome) ==
    /\ pc = "geocoding"
    /\ \E now \in Times :
           issueCreate(closure, imageIds,
                       IF outcome = "found" THEN geoResult ELSE coords,
                       progressLog, [requests EXCEPT !.geocoded = outcome], now)
    /\ UNCHANGED <<serverVars, form, selectedLocation, locationName, showModal,
                   submitting, propertiesState, alerted, closure, uploadPromises,
                   serving, imageIds, propertyResult, submissions>>

\* The create request returns (lines 300-322).  netOk = FALSE is a fetch that
\* rejects; the other inputs are those of the POST handler.
createResponse(netOk, connectOk, writeOk, now) ==
    /\ pc = "creating"
    /\ IF ~netOk
       THEN /\ catchFinally("Failed to fetch")
            /\ requests' = [requests EXCEPT !.created = "network"]
            /\ UNCHANGED <<serverVars, propertyResult>>
       ELSE /\ properties_POST(connectOk, TRUE, propertyData[1], writeOk, now)
            /\ LET outcome == IF response'.error = "none" THEN "created"
                                                          ELSE response'.error
               IN  IF ok(response')
                   THEN /\ propertyResult' = response'.body
                        /\ requests' = [requests EXCEPT !.list = @ + 1,
                                                        !.created = outcome]
                        /\ pc' = "refreshing"
                        /\ UNCHANGED <<alerted, submitting, uploadProgress, progressLog>>
                   ELSE /\ catchFinally("Failed to create property")
                        /\ requests' = [requests EXCEPT !.created = outcome]
                        /\ UNCHANGED propertyResult
    /\ UNCHANGED <<form, selectedLocation, locationName, showModal, propertiesState,
                   closure, uploadPromises, serving, imageIds, coords, propertyData,
                   submissions>>

\* A refresh whose failure clears the form as a success does
refreshResponse_resetAlways(netOk, connectOk, queryOk) ==
    /\ pc = "refreshing"
    /\ IF ~netOk
       THEN /\ catchFinally("Failed to fetch")
            /\ UNCHANGED <<serverVars, propertiesState>>
       ELSE /\ properties_GET(connectOk, queryOk)
            /\ propertiesState' = response'.body
            /\ progressLog' = progressLog \o <<100, 0>>
            /\ submitting' = FALSE
            /\ uploadProgress' = 0
            /\ pc' = "idle"
            /\ UNCHANGED alerted
    /\ showModal' = FALSE
    /\ form' = emptyForm
    /\ selectedLocation' = noCoords
    /\ locationName' = ""
    /\ UNCHANGED <<closure, uploadPromises, serving, imageIds, coords, propertyData,
                   propertyResult, requests, submissions>>

\* A refresh whose result is not put on display
refreshResponse_keepsList(netOk, connectOk, queryOk) ==
    /\ pc = "refreshing"
    /\ IF ~netOk
       THEN /\ catchFinally("Failed to fetch")
            /\ UNCHANGED <<serverVars, form, selectedLocation, locationName,
                           showModal, propertiesState>>
       ELSE /\ properties_GET(connectOk, queryOk)
            /\ propertiesState' = propertiesState
            /\ progressLog' = progressLog \o <<100, 0>>
            /\ showModal' = FALSE
            /\ form' = emptyForm
            /\ selectedLocation' = noCoords
            /\ locationName' = ""
            /\ submitting' = FALSE
            /\ uploadProgress' = 0
            /\ pc' = "idle"
            /\ UNCHANGED alerted
    /\ UNCHANGED <<closure, uploadPromises, serving, imageIds, coords, propertyData,
                   propertyResult, requests, submissions>>

\* The refresh request returns (lines 322-335), then the finally block.
refreshResponse(netOk, connectOk, queryOk) ==
    /\ pc = "refreshing"
    /\ IF ~netOk
       THEN /\ catchFinally("Failed to fetch")
            /\ UNCHANGED <<serverVars, form, selectedLocation, locationName,
                           showModal, propertiesState>>
       ELSE /\ properties_GET(connectOk, queryOk)
            /\ propertiesState' = response'.body
            /\ progressLog' = progressLog \o <<100, 0>>
            /\ showModal' = FALSE
            /\ form' = emptyForm
            /\ selectedLocation' = noCoords
            /\ locationName' = ""
            /\ submitting' = FALSE
            /\ uploadProgress' = 0
            /\ pc' = "idle"
            /\ UNCHANGED alerted
    /\ UNCHANGED <<closure, uploadPromises, serving, imageIds, coords, propertyData,
                   propertyResult, requests, submissions>>

(***************************************************************************)
(* Specifications                                                          *)
(***************************************************************************)
Init ==
    /\ MONGODB_URI \in {"set", "unset"}
    /\ fsFiles = <<>>
    /\ nextOid = 1
    /\ uploadStream = [state |-> "none"]
    /\ uploaded = <<>>
    /\ properties = <<>>
    /\ cached = [conn |-> "null", promise |-> "null"]
    /\ response = [handler |-> "none", status |-> 0]
    /\ InitClient
    /\ InitConnect
    /\ clicks = <<>>

\* Requests of other clients.  The bucket hands out MaxObjects identifiers
\* to them.
NextImage ==
    /\ serving = 0
    /\ UNCHANGED <<clientVars, connectVars, lookupVars>>
    /\ \/ \E bodyOk \in BOOLEAN, formData \in FormDatas :
             upload_POST(bodyOk, formData) /\ nextOid' <= MaxObjects + 1
       \/ upload_finish
       \/ upload_error
       \/ upload_timeout
       \/ abandoned_finish
       \/ abandoned_error
       \/ \E id \in ImageIds, storeOk \in BOOLEAN : image_GET(id, storeOk)

SpecImage == Init /\ [][NextImage]_vars

NextProperty ==
    /\ UNCHANGED <<clientVars, connectVars, lookupVars>>
    /\ \/ \E connectOk \in BOOLEAN, queryOk \in BOOLEAN : properties_GET(connectOk, queryOk)
       \/ \E connectOk \in BOOLEAN, bodyOk \in BOOLEAN, data \in Payloads,
             writeOk \in BOOLEAN, now \in Times :
               properties_POST(connectOk, bodyOk, data, writeOk, now)

SpecProperty == Init /\ [][NextProperty]_vars

\* The page component against the server
NextClient ==
    /\ UNCHANGED <<connectVars, lookupVars>>
    /\ \/ \E f \in Forms, point \in {noCoords, mapPoint}, name \in {"", "Osu"} :
             userFills(f, point, name)
       \/ handleSubmit
       \/ \E k \in DOMAIN uploadPromises, netOk \in BOOLEAN : uploadToMongo_serve(k, netOk)
       \/ \E outcome \in {"finish", "error", "timeout"} : uploadToMongo_response(outcome)
       \/ \E finished \in BOOLEAN : abandoned(finished)
       \/ uploadsSettled
       \/ \E outcome \in GeoOutcomes : geocodeResponse(outcome)
       \/ \E netOk \in BOOLEAN, connectOk \in BOOLEAN, writeOk \in BOOLEAN, now \in Times :
             createResponse(netOk, connectOk, writeOk, now)
       \/ \E netOk \in BOOLEAN, connectOk \in BOOLEAN, queryOk \in BOOLEAN :
             refreshResponse(netOk, connectOk, queryOk)

SpecClient == Init /\ [][NextClient]_vars

\* Every request in flight is answered or fails in the end, and a
\* continuation that can run does run.
SpecClientFair == SpecClient /\ WF_vars(NextClient)

\* Points selected on the map around one submission of a form without files
NextLocation ==
    \/ \E point \in Points : handleMapClick(point)
    \/ \E n \in DOMAIN clicks, answer \in {"named", "unnamed", "failed"} :
          reverseGeocoded(n, answer)
    \/ /\ UNCHANGED <<connectVars, lookupVars>>
       /\ \/ userFills(locationForm, noCoords, "")
          \/ handleSubmit
          \/ \E outcome \in GeoOutcomes : geocodeResponse(outcome)
          \/ \E netOk \in BOOLEAN, connectOk \in BOOLEAN, writeOk \in BOOLEAN, now \in Times :
                createResponse(netOk, connectOk, writeOk, now)
          \/ \E netOk \in BOOLEAN, connectOk \in BOOLEAN, queryOk \in BOOLEAN :
                refreshResponse(netOk, connectOk, queryOk)

SpecLocation == Init /\ [][NextLocation]_vars

\* Concurrent dbConnect() calls of one process, and list requests taken up
\* once the connection attempt has settled
NextConnect ==
    /\ UNCHANGED <<clientVars, lookupVars>>
    /\ \/ \E p \in Callers : dbConnect_call(p)
       \/ connect_settle
       \/ \E p \in Callers : dbConnect_resume(p)
       \/ storeChanges
       \/ /\ cached.promise \in {"fulfilled", "rejected"}
          /\ \E queryOk \in BOOLEAN : properties_GET(storeUp, queryOk)
          /\ UNCHANGED connectVars

SpecConnect == Init /\ [][NextConnect]_vars

Next == NextImage \/ NextProperty \/ NextClient \/ NextConnect \/ NextLocation

Spec == Init /\ [][Next]_vars


(***************************************************************************)
(* Properties of the image pipeline (checked under SpecImage)              *)
(***************************************************************************)
\* The last response is a served image for an identifier the upload handler
\* returned to a client.
ServedUploaded ==
    /\ response.handler = "image.GET"
    /\ response.status = 200
    /\ response.id.n \in DOMAIN uploaded
    /\ uploaded[response.id.n].returned

\* C1: retrieving an identifier that upload returned yields exactly the bytes
\* of the uploaded file, for files stored compressed and uncompressed alike.
C1_RoundTripBytes ==
    ServedUploaded =>
        LET file == uploaded[response.id.n].file IN
        /\ response.body.ok
        /\ response.body.bytes = [enc |-> "raw", fill |-> file.fill, len |-> file.size]

\* A file above the threshold, stored gzip-encoded, has been retrieved.
C1_Witness ==
    /\ ServedUploaded
    /\ uploaded[response.id.n].file.size > 1048576
    /\ fsFiles[response.id.n].payload.enc = "gzip"
    /\ response.body.bytes.fill = 255

\* C2: retrieving an identifier that upload returned reports the Content-Type
\* the file was uploaded with, stored compressed or not.
C2_ContentTypeRoundTrip ==
    ServedUploaded => response.contentType = uploaded[response.id.n].file.type

\* The request the last upload response answers had no file, a file above
\* 5 MB, or a file whose type does not start with image/.
UploadInvalid(r) ==
    /\ r.handler = "upload.POST"
    /\ r.parsed
    /\ \/ r.formData = <<>>
       \/ r.formData[1].size > 5242880
       \/ r.formData[1].type \notin {imagePng, imageJpeg}

\* C3: an upload without file, above 5 MB or of a non-image type is answered
\* 400, and the request leaves the object store as it was: no document, no
\* stream and no identifier is created.
C3_RejectsInvalidUpload ==
    /\ [](UploadInvalid(response) => response.status = 400)
    /\ [][(response' # response /\ UploadInvalid(response'))
            => /\ fsFiles' = fsFiles
               /\ uploadStream' = uploadStream
               /\ nextOid' = nextOid]_vars

\* An image of 5 MB + 1 byte was rejected while the store holds an object.
C3_Witness ==
    /\ UploadInvalid(response)
    /\ response.formData # <<>>
    /\ response.formData[1].size = 5242881
    /\ response.formData[1].type = imagePng
    /\ response.status = 400
    /\ DOMAIN fsFiles # {}

\* C4: a stored object is flagged compressed and holds a gzip payload exactly
\* when the uploaded file is longer than 1 MiB; a file of 1 MiB or less is
\* stored raw with the flag unset.
C4_CompressedIffAboveOneMiB ==
    \A id \in DOMAIN fsFiles :
        LET above == uploaded[id].file.size > 1048576 IN
        /\ fsFiles[id].metadata.compressed <=> above
        /\ (fsFiles[id].payload.enc = "gzip") <=> above
        /\ (fsFiles[id].payload.enc = "raw") <=> ~above

\* A file of exactly 1 MiB is stored, raw and unflagged.
C4_Witness ==
    \E id \in DOMAIN fsFiles :
        /\ uploaded[id].file.size = 1048576
        /\ ~fsFiles[id].metadata.compressed
        /\ fsFiles[id].payload.enc = "raw"

\* C5: GET of a well-formed identifier that matches no stored object is
\* answered 404.
C5_UnknownIdNotFound ==
    (/\ response.handler = "image.GET"
     /\ response.id.kind = "hex24"
     /\ response.id.n \notin DOMAIN fsFiles)
        => response.status = 404

\* C6: GET with a missing identifier or one that is no valid object
\* identifier is answered 400.
C6_InvalidIdBadRequest ==
    (/\ response.handler = "image.GET"
     /\ response.id.kind \in {"none", "malformed"})
        => response.status = 400

(***************************************************************************)
(* Properties of the property repository (checked under SpecProperty)      *)
(***************************************************************************)
\* C7: list never fails the caller: whenever the connection or the query
\* fails, GET /api/properties answers 200 with the empty array, and no
\* exception leaves the handler.
C7_ListNeverFails ==
    response.handler = "properties.GET" =>
        /\ response.status = 200
        /\ ~response.uncaught
        /\ response.error # "none" => response.body = <<>>

\* The query failed while the collection holds a listing.
C7_Witness ==
    /\ response.handler = "properties.GET"
    /\ response.error = "query"
    /\ response.body = <<>>
    /\ Len(properties) >= 1

\* C8: a list that succeeds returns all persisted listings, each created no
\* earlier than the one after it, whatever the insertion order was.
C8_ListNewestFirst ==
    (response.handler = "properties.GET" /\ response.error = "none") =>
        /\ Len(response.body) = Len(properties)
        /\ {response.body[i] : i \in DOMAIN response.body}
             = {properties[i] : i \in DOMAIN properties}
        /\ \A i \in 1..(Len(response.body) - 1) :
               response.body[i].createdAt >= response.body[i + 1].createdAt

\* Listings inserted oldest first have been listed.
C8_Witness ==
    /\ response.handler = "properties.GET"
    /\ response.error = "none"
    /\ Len(properties) >= 3
    /\ properties[1].createdAt < properties[2].createdAt
    /\ response.body # properties

\* The payload the last create response answers lacks a required field.
LacksRequired(r) ==
    /\ r.handler = "properties.POST"
    /\ r.data # <<>>
    /\ \E path \in {"name", "location", "description", "lat", "lng", "price"} :
           path \notin DOMAIN r.data[1]

\* C9: a create whose payload lacks name, location, description, lat, lng or
\* price is rejected and persists nothing: the collection, and so what list
\* returns, is the same before and after the call.
C9_MissingFieldPersistsNothing ==
    /\ [](LacksRequired(response) => response.error # "none")
    /\ [][(response' # response /\ LacksRequired(response'))
            => /\ properties' = properties
               /\ findSorted(properties') = findSorted(properties)]_vars

\* Schema validation rejected a payload without price while the collection
\* holds a listing.
C9_Witness ==
    /\ LacksRequired(response)
    /\ "price" \notin DOMAIN response.data[1]
    /\ response.error = "validation"
    /\ Len(properties) >= 1

\* C10: a create rejected with a validation error is answered with a mock
\* listing record whose identifier is prefixed mock_, not with an error.
C10_ValidationErrorYieldsMock ==
    (response.handler = "properties.POST" /\ response.error = "validation") =>
        /\ response.status = 200
        /\ ~response.uncaught
        /\ Len(response.body) = 1
        /\ response.body[1]._id[1] = "mock_"

(***************************************************************************)
(* Properties of the creation workflow (checked under SpecClient)          *)
(***************************************************************************)
\* The files of the occupied slots of a file list, in slot order
Occupied(files) ==
    LET slots == SelectSeq(files, LAMBDA slot : slot # <<>>) IN
    [k \in 1..Len(slots) |-> slots[k][1]]

\* The create request of the submission has returned, and it failed.
CreateFailed == requests.created \notin {"none", "created"}

\* C11: when create fails the workflow still yields a listing record whose
\* identifier is prefixed mock_ and whose name, price, beds, baths and area
\* are the submitted form values.
C11_CreateFailureYieldsMock ==
    CreateFailed =>
        /\ Len(propertyResult) = 1
        /\ propertyResult[1]._id[1] = "mock_"
        /\ propertyResult[1].name = closure.form.name
        /\ propertyResult[1].price = Number(closure.form.price)
        /\ propertyResult[1].beds = Number(closure.form.beds)
        /\ propertyResult[1].baths = Number(closure.form.baths)
        /\ propertyResult[1].area = Number(closure.form.area)

\* The create request of the submission has returned a stored listing.
Created ==
    /\ requests.created = "created"
    /\ Len(propertyResult) = 1

\* C12: when create succeeds, the images of the returned listing and of the
\* persisted listing are the imageIds the workflow resolved, same length and
\* same order.
C12_CreatedImagesAreImageIds ==
    Created =>
        /\ propertyResult[1].images = imageIds
        /\ \E k \in DOMAIN properties :
              /\ properties[k]._id = propertyResult[1]._id
              /\ properties[k].images = imageIds

\* A listing was created from two uploads that completed in reverse order.
C12_Witness ==
    /\ Created
    /\ Len(imageIds) = 2
    /\ imageIds[1][1] = "oid"
    /\ imageIds[1][2] > imageIds[2][2]
    /\ Len(properties) = 1

\* C13: with one or more selected files every upload request is issued
\* before any of them completes, and whatever the order of completion the
\* i-th entry of imageIds is the identifier the upload of the i-th occupied
\* slot returned.
C13_ImageIdsInSlotOrder ==
    LET files == Occupied(closure.form.files) IN
    (submissions = 1 /\ Len(files) >= 1) =>
        /\ requests.upload = Len(files)
        /\ Len(uploadPromises) = Len(files)
        /\ pc \in {"geocoding", "creating", "refreshing"} \/ propertyData # <<>> =>
              /\ Len(imageIds) = Len(files)
              /\ \A i \in 1..Len(files) :
                    /\ imageIds[i][1] = "oid"
                    /\ imageIds[i][2] \in DOMAIN uploaded
                    /\ uploaded[imageIds[i][2]].returned
                    /\ uploaded[imageIds[i][2]].file = files[i]
              /\ \A i, j \in 1..Len(files) : imageIds[i] = imageIds[j] => i = j

\* Two different files were uploaded, the second slot's upload completed
\* first, and the batch resolved.
C13_Witness ==
    /\ submissions = 1
    /\ Occupied(closure.form.files) = <<pngLarge, jpegSmall>>
    /\ imageIds = << <<"oid", 2>>, <<"oid", 1>> >>
    /\ uploaded[1].file = jpegSmall
    /\ pc = "creating"

\* C14: a submission with no selected file (empty list, or every slot
\* cleared) issues no upload request, and its payload and the listing made
\* from it have exactly placeholder1, placeholder2, placeholder3 as images.
C14_NoFilesYieldsPlaceholders ==
    (submissions = 1 /\ Occupied(closure.form.files) = <<>>) =>
        /\ requests.upload = 0
        /\ uploadPromises = <<>>
        /\ nextOid = 1
        /\ fsFiles = <<>>
        /\ pc # "uploading" =>
              imageIds = << <<"placeholder", 1>>, <<"placeholder", 2>>, <<"placeholder", 3>> >>
        /\ propertyData # <<>> =>
              propertyData[1].images =
                  << <<"placeholder", 1>>, <<"placeholder", 2>>, <<"placeholder", 3>> >>
        /\ \A k \in DOMAIN properties :
              properties[k].images =
                  << <<"placeholder", 1>>, <<"placeholder", 2>>, <<"placeholder", 3>> >>
        /\ \A k \in DOMAIN propertyResult :
              propertyResult[k].images =
                  << <<"placeholder", 1>>, <<"placeholder", 2>>, <<"placeholder", 3>> >>

\* A form whose two file slots were both cleared was submitted and its
\* listing stored.
C14_Witness ==
    /\ submissions = 1
    /\ closure.form.files = << <<>>, <<>> >>
    /\ Created
    /\ Len(properties) = 1
    /\ Len(properties[1].images) = 3

\* An upload of the submission was rejected.
UploadRejected == \E k \in DOMAIN uploadPromises : uploadPromises[k].state = "rejected"

\* C15: when one upload of a submission fails the submission fails: no
\* geocoding and no create request is issued, no listing is persisted, and
\* the workflow ends with an alert, even when other uploads succeeded.
C15_UploadFailureAborts ==
    UploadRejected =>
        /\ pc \in {"uploading", "idle"}
        /\ requests.geocode = 0
        /\ requests.create = 0
        /\ requests.list = 0
        /\ propertyData = <<>>
        /\ properties = <<>>
        /\ pc = "idle" => (alerted # "" /\ ~submitting /\ showModal)

\* One upload of the batch succeeded, another failed, and the submission
\* ended with an alert.
C15_Witness ==
    /\ UploadRejected
    /\ \E k \in DOMAIN uploadPromises : uploadPromises[k].state = "fulfilled"
    /\ Len(fsFiles) >= 1
    /\ pc = "idle"
    /\ alerted = "Upload failed"

\* The submission was made with a map point selected.
PointSelected ==
    /\ submissions = 1
    /\ (closure.selectedLocation.lat # 0 \/ closure.selectedLocation.lng # 0)

\* C16: with a map point of non-zero coordinates selected, no geocoding
\* lookup is made and the payload and the listing carry the point's lat and
\* lng, whatever location text was typed.
C16_SelectedPointWins ==
    PointSelected =>
        /\ requests.geocode = 0
        /\ requests.geocoded = "none"
        /\ pc # "geocoding"
        /\ propertyData # <<>> =>
              /\ propertyData[1].lat = closure.selectedLocation.lat
              /\ propertyData[1].lng = closure.selectedLocation.lng
        /\ \A k \in DOMAIN properties :
              /\ properties[k].lat = closure.selectedLocation.lat
              /\ properties[k].lng = closure.selectedLocation.lng

\* A listing was stored for a form with a location text and a selected point.
C16_Witness ==
    /\ PointSelected
    /\ trim(closure.form.location) # ""
    /\ Created
    /\ Len(properties) = 1
    /\ properties[1].lat = 555
    /\ properties[1].lng = -20

\* The geocoding lookup of the submission failed or found nothing.
GeocodingFailed == requests.geocoded \in {"error", "empty"}

\* C17: with no point selected and a location text entered, a geocoding
\* lookup that fails or returns no result does not abort the submission: the
\* create request is issued with lat 0 and lng 0, and the listing it stores
\* has lat 0 and lng 0.
C17_GeocodingFailureKeepsZero ==
    GeocodingFailed =>
        /\ closure.selectedLocation = [lat |-> 0, lng |-> 0]
        /\ trim(closure.form.location) # ""
        /\ requests.create = 1
        /\ Len(propertyData) = 1
        /\ propertyData[1].lat = 0
        /\ propertyData[1].lng = 0
        /\ pc = "creating" => (alerted = "" /\ submitting)
        /\ \A k \in DOMAIN properties : properties[k].lat = 0 /\ properties[k].lng = 0

\* The lookup failed with an error and the listing was stored all the same.
C17_Witness ==
    /\ requests.geocoded = "error"
    /\ Created
    /\ Len(properties) = 1
    /\ properties[1].lat = 0
    /\ properties[1].lng = 0

\* C18: a failure of the create call, for any reason, is absorbed: the
\* workflow raises no alert, goes on to the refresh request with a record
\* prefixed mock_, and does not return to idle because of it.
C18_CreateFailureAbsorbed ==
    CreateFailed =>
        /\ requests.list = 1
        /\ alerted \notin {"Failed to create property"}
        /\ pc = "refreshing" => (alerted = "" /\ submitting)
        /\ \E k \in DOMAIN propertyResult : propertyResult[k]._id[1] = "mock_"

(***************************************************************************)
(* Properties of the handlers' failure paths                               *)
(***************************************************************************)
\* C19: an upload whose store write outlasts the 30 s bound is aborted: the
\* response is an error without identifier, and once it has been sent the
\* request completes no stored object.
C19_TimeoutAbortsWrite ==
    /\ [][(uploadStream.state = "piping" /\ uploadStream'.state = "abandoned")
            => (response'.status = 500 /\ response'.fileId = 0)]_vars
    /\ [][uploadStream.state = "abandoned" => fsFiles' = fsFiles]_vars

\* C20: every handler invocation ends with an HTTP response the handler
\* made; none ends with an exception leaving the handler.
C20_NoUncaughtException ==
    response.handler \in {"properties.GET", "properties.POST"} => ~response.uncaught

(***************************************************************************)
(* Properties of the stored data                                           *)
(***************************************************************************)
\* C21: every image identifier of every persisted listing that is not a
\* placeholder token is the identifier of an object in the bucket.
C21_ImagesResolve ==
    \A k \in DOMAIN properties :
        \A i \in DOMAIN properties[k].images :
            properties[k].images[i][1] # "placeholder" =>
                /\ properties[k].images[i][1] = "oid"
                /\ properties[k].images[i][2] \in DOMAIN fsFiles

(***************************************************************************)
(* Properties of the shared connection (checked under SpecConnect)         *)
(***************************************************************************)
\* C22: however concurrent dbConnect() calls interleave, mongoose.connect()
\* is called at most once; calls arriving while it is pending wait for that
\* same attempt, and every call that returns returns the one connection.
C22_ConnectsOnce ==
    /\ connects <= 1
    /\ (connects = 1) <=> (cached.promise # "null")
    /\ \A p \in Callers :
          /\ callers[p].pc = "awaiting" => connects = 1
          /\ callers[p].pc = "returned" =>
                /\ callers[p].result = "mongoose"
                /\ cached.conn = callers[p].result
                /\ cached.promise = "fulfilled"

\* Two calls wait for the one pending attempt.
C22_Witness ==
    /\ cached.promise = "pending"
    /\ connects = 1
    /\ \E p, q \in Callers :
          /\ p # q
          /\ callers[p].pc = "awaiting"
          /\ callers[q].pc = "awaiting"

\* C27: once a connection attempt has failed the rejected promise stays
\* cached: no later call starts a new attempt, every later call fails, and
\* list answers the empty sequence, also when the store is reachable again.
C27_FailedAttemptStaysCached ==
    /\ [][cached.promise = "rejected" => (cached' = cached /\ connects' = connects)]_vars
    /\ [][(cached.promise = "rejected" /\ response' # response) =>
            /\ response'.handler = "properties.GET"
            /\ response'.status = 200
            /\ response'.error = "connect"
            /\ response'.body = <<>>]_vars
    /\ [](cached.promise = "rejected" =>
            \A p \in Callers : callers[p].pc \in {"idle", "awaiting", "threw"})

\* After the failed attempt the store is reachable again; a call made while
\* it was reachable has failed and list has answered.
C27_Witness ==
    /\ cached.promise = "rejected"
    /\ storeUp
    /\ connects = 1
    /\ \E p \in Callers : callers[p].pc = "threw" /\ callers[p].storeUp
    /\ response.handler = "properties.GET"
    /\ response.error = "connect"

(***************************************************************************)
(* Properties of the workflow's course (checked under SpecClient)          *)
(***************************************************************************)
\* The phase an await of handleSubmit belongs to, in the order of the code
phaseRank(at) ==
    CASE at = "uploading" -> 1
      [] at = "geocoding" -> 2
      [] at = "creating" -> 3
      [] at = "refreshing" -> 4
      [] OTHER -> 0

InLog(value) == \E i \in DOMAIN progressLog : progressLog[i] = value

\* The submission has returned to idle.
Ended == submissions = 1 /\ pc = "idle"

\* C23: a submission passes Uploading, Geocoding, Persisting in that order;
\* progress 10 is set before an upload is taken up, 60 only when every
\* upload has completed, 70 before the geocoding request, 80 before the
\* create request, 100 only after create and refresh succeeded; and the
\* values never decrease until the final reset to 0.
C23_ProgressInPhaseOrder ==
    /\ [][(pc # "idle" /\ pc' # "idle") => phaseRank(pc') >= phaseRank(pc)]_vars
    /\ [](submissions = 1 =>
            /\ (\E k \in DOMAIN uploadPromises : uploadPromises[k].state # "pending")
                  => InLog(10)
            /\ InLog(60) =>
                  \A k \in DOMAIN uploadPromises : uploadPromises[k].state = "fulfilled"
            /\ requests.geocode >= 1 => InLog(70)
            /\ requests.create >= 1 => (InLog(70) /\ InLog(80))
            /\ InLog(100) =>
                  /\ requests.created \in {"created", "connect"}
                  /\ requests.list = 1
                  /\ Len(propertyResult) = 1
                  /\ response.handler = "properties.GET"
                  /\ alerted = ""
            /\ \A i \in 2..(Len(progressLog) - 1) : progressLog[i - 1] <= progressLog[i]
            /\ (~Ended /\ Len(progressLog) >= 2)
                  => progressLog[Len(progressLog) - 1] <= progressLog[Len(progressLog)]
            /\ Ended => progressLog[Len(progressLog)] = 0)

\* A submission with files and a geocoded location ran through every
\* checkpoint.
C23_Witness ==
    /\ Ended
    /\ progressLog = <<0, 10, 60, 70, 80, 100, 0>>
    /\ requests.geocode = 1

\* C24: every started submission returns to idle, with submitting false and
\* the progress reset to 0, whichever step succeeds or throws, as long as
\* every request in flight is answered or fails.
C24_SubmissionEnds ==
    submitting ~> (pc = "idle" /\ ~submitting /\ uploadProgress = 0)

\* A submission whose create request failed is back at idle.
C24_Witness ==
    /\ Ended
    /\ ~submitting
    /\ uploadProgress = 0
    /\ requests.created = "network"
    /\ alerted # ""

\* C25: nothing is retried within a submission: one upload request per
\* selected file, at most one geocoding request and at most one create
\* request, also when one of them fails.
C25_NoRetries ==
    submissions = 1 =>
        /\ requests.upload = Len(Occupied(closure.form.files))
        /\ Len(uploadPromises) = requests.upload
        /\ nextOid - 1 <= requests.upload
        /\ Cardinality(DOMAIN fsFiles) <= requests.upload
        /\ requests.geocode <= 1
        /\ requests.create <= 1
        /\ requests.list <= 1

\* An upload, the lookup or the create request failed, and each was made once.
C25_Witness ==
    /\ Ended
    /\ requests.upload = 2
    /\ nextOid = 3
    /\ requests.geocoded = "error"
    /\ requests.geocode = 1
    /\ requests.created = "write"
    /\ requests.create = 1

\* The submission ended as a success: the modal was closed.
Succeeded == Ended /\ ~showModal

C28_ErrorMeansNothingPersisted ==
    (Ended /\ alerted # "") => properties = <<>>

\* What the user entered and sees: the form with its files, the selected
\* point, the location name, the listings displayed, the modal
userVisible == <<form, selectedLocation, locationName, propertiesState, showModal>>

\* C29: a submission that ends in error leaves the form fields, the files,
\* the selected point, the location name, the displayed listings and the
\* open modal as they were when it started; only a successful submission
\* clears the form, resets the point to (0,0), clears the location name and
\* closes the modal.
C29_ErrorLeavesFormAlone ==
    /\ [][(pc # "idle" /\ pc' = "idle" /\ alerted' # "") =>
            /\ userVisible' = userVisible
            /\ form' = closure.form
            /\ selectedLocation' = closure.selectedLocation
            /\ locationName' = closure.locationName
            /\ showModal']_vars
    /\ [][(pc # "idle" /\ pc' = "idle" /\ alerted' = "") =>
            /\ form' = emptyForm
            /\ selectedLocation' = [lat |-> 0, lng |-> 0]
            /\ locationName' = ""
            /\ ~showModal']_vars
    /\ [][(submissions = 1 /\ userVisible' # userVisible) =>
            (pc = "refreshing" /\ pc' = "idle" /\ alerted' = "")]_vars

\* A submission with files, a selected point and its name ended with an
\* alert and everything is still in the open modal.
C29_Witness ==
    /\ Ended
    /\ alerted # ""
    /\ showModal
    /\ form = closure.form
    /\ Len(form.files) = 2
    /\ form.name = "Villa"
    /\ selectedLocation = [lat |-> 555, lng |-> -20]
    /\ locationName = "Osu"

(***************************************************************************)
(* Properties of the location label (checked under SpecLocation)           *)
(***************************************************************************)
\* Every reverse geocoding request made so far has been answered.
AllAnswered ==
    /\ clicks # <<>>
    /\ \A n \in DOMAIN clicks : clicks[n].answer \in {"named", "unnamed"}

\* What the response to the last click sets the location name to
lastLabel ==
    LET last == clicks[Len(clicks)] IN
    IF last.answer = "named" THEN displayName(last.point) ELSE "Selected Location"

\* C30: once every reverse geocoding response has arrived the location name
\* is the one of the point selected last, in whatever order the responses
\* arrived, and after a successful submission the cleared location name
\* stays cleared.
C30_LabelOfLastPoint ==
    /\ (AllAnswered /\ submissions = 0) => locationName = lastLabel
    /\ Succeeded => locationName = ""

====
